---- MODULE Spec2Model ----
(***************************************************************************)
(* Model of the context sharing engine (createContextDB): one node's       *)
(* change feed, the Message View and the Share View built from it by two   *)
(* indexers, the cursor over active (context, recipient) pairs and the     *)
(* forwarding sessions that hand messages to the worker.                   *)
(*                                                                         *)
(* Strings are sequences of character codes, so that keys are composed by  *)
(* concatenation and compared lexicographically as the key-value store     *)
(* compares them.                                                          *)
(***************************************************************************)
EXTENDS Integers, Sequences, FiniteSets, TLC

VARIABLES
    feed,        \* node.changes: the append-only log, entry i has change = FeedBase + i
    closed,      \* the engine's closed flag
    msgHW,       \* how many feed entries the Message View indexer has consumed
    ctxHW,       \* how many feed entries the Share View indexer has consumed
    msgDB,       \* Message View primary rows: permalink -> row
    msgIndex,    \* msgDBIndexes.context: set of [ikey, pk]
    ctxDB,       \* Share View primary rows: context:recipient -> row
    cfr,         \* indexes.contextForRecipient: set of [ikey, pk]
    cursorQ,     \* share states emitted by cursor(), not yet given to forward
    forwarding,  \* identifier -> forwarding session of this engine instance
    handed,      \* <<context, recipient>> -> permalinks given to the worker by this instance
    ctxLog,      \* per consumed feed entry, what the Share View indexer did with it
    hwAtOpen,    \* ctxHW when this engine instance was created
    opened,      \* how many engine instances have been created on this node
    dbOpen,      \* namespace ("msg", "ctx") -> whether the namespace is open
    dbCloses,    \* namespace -> how many times this engine instance has closed it
    closeCalls,  \* how many times close has been called on this engine instance
    closeCbs     \* how many of those calls have had their callback invoked

\* the two namespaces and the calls of close
dbVars == <<dbOpen, dbCloses, closeCalls, closeCbs>>

vars == <<feed, closed, msgHW, ctxHW, msgDB, msgIndex, ctxDB, cfr, cursorQ,
          forwarding, handed, ctxLog, hwAtOpen, opened, dbVars>>

----------------------------------------------------------------------------
(* Bounds of the model *)

MaxEnv == 3        \* entries appended by the application and by peers
MaxFeed == 5       \* length of the modelled feed, wrappers produced by forwarding included
FeedBase == 248    \* entries the feed held before the first modelled one (none a message)
MaxOpen == 2       \* engine instances created one after the other on the node
MaxClose == 2      \* calls of close on one engine instance

----------------------------------------------------------------------------
(* Strings *)

sep == <<33>>          \* indexedCtxDB.separator, "!"
MAX_CHAR == <<255>>    \* "\xff"
COLON == <<58>>        \* ":"

\* a < b in the byte order of the key-value store
StrLess(a, b) ==
    \E i \in 1..Len(b) :
        /\ i <= Len(a) + 1
        /\ \A j \in 1..(i - 1) : a[j] = b[j]
        /\ (i > Len(a) \/ a[i] < b[i])

HexDigit(d) == IF d < 10 THEN 48 + d ELSE 87 + d

HexByte(b) == <<HexDigit(b \div 16), HexDigit(b % 16)>>

\* lexint.pack(n, 'hex')
hex(n) ==
    IF n < 251 THEN HexByte(n)
    ELSE IF n < 256 THEN HexByte(251) \o HexByte(n - 251)
    ELSE HexByte(252) \o HexByte(n \div 256) \o HexByte(n % 256)

\* the elements of a finite set of records with an ikey, in key order
RECURSIVE SortByKey(_)
SortByKey(S) ==
    IF S = {} THEN <<>>
    ELSE LET m == CHOOSE x \in S : \A y \in S : y = x \/ ~StrLess(y.ikey, x.ikey)
         IN  <<m>> \o SortByKey(S \ {m})

----------------------------------------------------------------------------
(* The node: objects, keeper, feed entries *)

Namespaces == {"msg", "ctx"}        \* node._createDB('msg-' + opts.db), ('ctx-' + opts.db)

MESSAGE_TYPE == "tradle.Message"
NEWOBJ == "newobj"                  \* topics.newobj
SHARECTX == "sharectx"              \* customTopics.sharecontext
UNSHARECTX == "unsharectx"          \* customTopics.unsharecontext

NoString == <<>>                    \* undefined or '' (both falsy)

\* a value put into a template string or added to a string: a missing one
\* reads "undefined"
Str(x) == IF x = NoString THEN <<117, 110, 100, 101, 102, 105, 110, 101, 100>> ELSE x
NoObject == [type |-> "undefined", context |-> NoString]

Contexts == {<<97>>, <<97, 98>>}                 \* "a", "ab"
Recipients == {<<98>>, <<99>>}                   \* "b" (the node itself), "c" (a peer)
Pairs == Contexts \X Recipients
SharePairs == Contexts \X {<<99>>}               \* the pairs the application shares
ShareSeqs == {0}                                 \* the seq arguments it passes to share

\* a recipient whose name continues the name of a context: "bc", with "a"
LongRecipient == <<98, 99>>
WorkerPairs == Pairs \cup {<<<<97>>, LongRecipient>>}

\* messages received or sent by the node, by permalink: "p1" .. "p4"
Originals == {<<112, 49>>, <<112, 50>>, <<112, 51>>, <<112, 52>>}
PayloadLink == <<111>>                           \* "o", a non-message object

\* the `context` a message body carries (other.context of signAndSend)
BodyContext(p) ==
    CASE p = <<112, 49>> -> <<97>>
      [] p = <<112, 50>> -> <<97>>
      [] p = <<112, 51>> -> <<97, 98>>
      [] OTHER -> NoString

\* the recipient of a message is part of its body too: "p1" and "p3" were sent
\* to the node, "p2" and "p4" by the node to the peer "c"
RecipientOf(p) == IF p \in {<<112, 49>>, <<112, 51>>} THEN <<98>> ELSE <<99>>

\* permalink of the message node.send creates to carry the object `link` to `r`
Wrap(link, r) == <<119>> \o link \o r
Wrappers == {Wrap(p, r) : p \in Originals, r \in Recipients \cup {LongRecipient}}
Wrapped(w) == CHOOSE p \in Originals :
                  \E r \in Recipients \cup {LongRecipient} : w = Wrap(p, r)

\* keeper.get(permalink): the body stored under a permalink
RECURSIVE KeeperGet(_)
KeeperGet(p) ==
    IF p \in Originals
    THEN [type |-> MESSAGE_TYPE, context |-> BodyContext(p),
          object |-> [type |-> "something", context |-> NoString]]
    ELSE IF p \in Wrappers
    THEN [type |-> MESSAGE_TYPE, context |-> NoString, object |-> KeeperGet(Wrapped(p))]
    ELSE [type |-> "something", context |-> NoString]

\* feed entry values
NewMessage(p) ==
    [topic |-> NEWOBJ, type |-> MESSAGE_TYPE, permalink |-> p, recipient |-> RecipientOf(p),
     objectinfo |-> [type |-> "something", link |-> PayloadLink, permalink |-> PayloadLink],
     object |-> NoObject, context |-> NoString, seq |-> 0]

NewWrapper(link, r) ==
    [topic |-> NEWOBJ, type |-> MESSAGE_TYPE, permalink |-> Wrap(link, r), recipient |-> r,
     objectinfo |-> [type |-> MESSAGE_TYPE, link |-> link, permalink |-> link],
     object |-> NoObject, context |-> NoString, seq |-> 0]

NewPayload ==
    [topic |-> NEWOBJ, type |-> "something", permalink |-> PayloadLink, recipient |-> NoString,
     objectinfo |-> [type |-> "undefined", link |-> NoString, permalink |-> NoString],
     object |-> NoObject, context |-> NoString, seq |-> 0]

Control(topic, c, r, s) ==
    [topic |-> topic, type |-> "undefined", permalink |-> NoString, recipient |-> r,
     objectinfo |-> [type |-> "undefined", link |-> NoString, permalink |-> NoString],
     object |-> NoObject, context |-> c, seq |-> s]

\* the position in the feed of the entry that announced the object `link`, 0 if none
EntryOf(log, link) ==
    IF \E i \in 1..Len(log) : log[i].topic = NEWOBJ /\ log[i].permalink = link
    THEN CHOOSE i \in 1..Len(log) :
            /\ log[i].topic = NEWOBJ /\ log[i].permalink = link
            /\ \A j \in 1..(i - 1) : ~(log[j].topic = NEWOBJ /\ log[j].permalink = link)
    ELSE 0

\* node.objects.get(link): the object's metadata with its body and, under
\* ENTRY_PROP, its feed index
ObjectsGet(log, link) ==
    LET i == EntryOf(log, link)
    IN  IF i = 0
        THEN [type |-> KeeperGet(link).type, link |-> link, permalink |-> link,
              recipient |-> NoString, object |-> KeeperGet(link), entry |-> 0]
        ELSE [type |-> log[i].type, link |-> link, permalink |-> link,
              recipient |-> log[i].recipient, object |-> KeeperGet(link),
              entry |-> FeedBase + i]

----------------------------------------------------------------------------
(* Module-level helpers of the engine *)

getRecipient(val) == val.recipient

newContextState(val) == [context |-> val.context, recipient |-> val.recipient,
                         seq |-> 0, active |-> "undefined"]

\* a getContext that looks for the context inside the wrapped message too
wrappedGetContext(val) ==
    IF val.object.context # NoString THEN val.object.context
    ELSE val.object.object.context

defaultGetContext(val) == val.object.context

\* wrapGetContext(defaultGetContext)
getContext(value, testSecondTier) ==
    IF value.topic # NEWOBJ THEN value.context
    ELSE LET base == IF testSecondTier /\ value.objectinfo.type = MESSAGE_TYPE
                     THEN value.objectinfo ELSE value
         IN  defaultGetContext(base)

\* defaultGetMessageSeq
getMessageSeq(change) == change.change

----------------------------------------------------------------------------
(* The indexer's rows *)

Nil == [nil |-> TRUE]               \* no row / cb() without a state
EmptyMap == [k \in {} |-> Nil]

Get(db, k) == IF k \in DOMAIN db THEN db[k] ELSE Nil
Put(db, k, row) == [x \in DOMAIN db \cup {k} |-> IF x = k THEN row ELSE db[x]]

deepEqual(a, b) == a = b

----------------------------------------------------------------------------
(* Message View: indexedMsgDB *)

MsgFilter(value) == value.topic = NEWOBJ /\ value.type = MESSAGE_TYPE

\* preprocess, once keeper.get has answered: val.object = body
MsgPreprocess(value) == [value EXCEPT !.object = KeeperGet(value.permalink)]

MsgPrimaryKey(value) == value.permalink

\* reduce without the first-writer-wins return
MsgReduceOverwrite(state, change) ==
    LET val == change.value
        context == getContext(val, FALSE)
    IN  IF context = NoString THEN Nil
        ELSE [permalink |-> val.permalink, context |-> context,
              recipient |-> getRecipient(val), seq |-> getMessageSeq(change)]

MsgReduce(state, change) ==
    LET val == change.value
        context == IF state # Nil THEN state.context ELSE getContext(val, FALSE)
    IN  IF state # Nil THEN state
        ELSE IF context = NoString THEN Nil
        ELSE [permalink |-> val.permalink, context |-> context,
              recipient |-> getRecipient(val), seq |-> getMessageSeq(change)]

\* the context index keyed without the seq
MsgIndexKeyNoSeq(state) == state.context \o sep \o state.permalink

\* msgDBIndexes.context
MsgIndexKey(state) == state.context \o sep \o hex(state.seq) \o sep \o state.permalink

----------------------------------------------------------------------------
(* Share View: indexedCtxDB *)

CtxFilter(val) ==
    \/ (val.topic = NEWOBJ /\ val.type = MESSAGE_TYPE)
    \/ val.topic = SHARECTX
    \/ val.topic = UNSHARECTX

\* preprocess, once keeper.get and node.objects.get have answered
CtxPreprocess(log, val) ==
    IF val.topic # NEWOBJ THEN val
    ELSE LET body == KeeperGet(val.permalink)
         IN  IF body.type = MESSAGE_TYPE
             THEN [val EXCEPT !.object = body,
                              !.objectinfo = ObjectsGet(log, val.objectinfo.permalink)]
             ELSE [val EXCEPT !.object = body]

CtxPrimaryKey(value) ==
    LET context == getContext(value, TRUE)
    IN  IF context # NoString THEN context \o COLON \o Str(getRecipient(value))
        ELSE NoString

\* the wrapper case of reduce: val.object.object is itself a message
IsSecondTier(val) == val.topic = NEWOBJ /\ val.object.object.type = MESSAGE_TYPE

\* case sharecontext with the seq of the entry written over the record's
CtxReduceShareReset(state, val) ==
    [(IF state # Nil THEN state ELSE newContextState(val))
        EXCEPT !.seq = val.seq, !.active = "true"]

\* case customTopics.sharecontext of reduce: newState
CtxReduceShare(state, val) ==
    [(IF state # Nil THEN state ELSE newContextState(val)) EXCEPT !.active = "true"]

\* the seq of a wrapper's own entry
OwnEntrySeq(log, change) == getMessageSeq(change)

\* the second-tier seq: getMessageSeq of the original message's entry
OriginalSeq(log, change) ==
    LET originalMsg == ObjectsGet(log, change.value.objectinfo.link)
    IN  getMessageSeq([change |-> originalMsg.entry, value |-> originalMsg])

\* originalOk: node.objects.get(val.objectinfo.link) answered without error
CtxReduce(log, state, change, originalOk) ==
    LET val == change.value
        context == IF state # Nil THEN state.context ELSE getContext(val, TRUE)
    IN  IF context = NoString THEN Nil
        ELSE IF val.topic = NEWOBJ
        THEN LET newState == IF state # Nil THEN state
                             ELSE newContextState([context |-> context,
                                                   recipient |-> getRecipient(val)])
             IN  IF IsSecondTier(val)
                 THEN IF ~originalOk THEN Nil
                      ELSE [newState EXCEPT !.seq = OriginalSeq(log, change)]
                 ELSE LET next == [newState EXCEPT !.seq = getMessageSeq(change)]
                      IN  IF deepEqual(state, next) THEN Nil ELSE next
        ELSE IF val.topic = SHARECTX
        THEN LET next == CtxReduceShare(state, val)
             IN  IF deepEqual(state, next) THEN Nil ELSE next
        ELSE IF state = Nil THEN Nil
        ELSE LET next == [state EXCEPT !.active = "false"]
             IN  IF deepEqual(state, next) THEN Nil ELSE next

\* the cfr key without the test of state.active
CfrKeyAnyState(state) ==
    IF state.context = NoString THEN NoString
    ELSE state.context \o sep \o Str(state.recipient) \o sep

\* indexes.contextForRecipient
CfrKey(state) ==
    IF state.context = NoString \/ state.active # "true" THEN NoString
    ELSE state.context \o sep \o Str(state.recipient) \o sep

\* the index rows after the row under pk changed from prev to next
Reindex(index, pk, oldKey, newKey) ==
    {x \in index : x.pk # pk \/ x.ikey # oldKey}
        \cup (IF newKey = NoString THEN {} ELSE {[ikey |-> newKey, pk |-> pk]})

----------------------------------------------------------------------------
(* Streams over the secondary indexes *)

\* the rows an index holds within (gt, lt), in key order: the `old` part of a read
ReadRange(index, db, gt, lt) ==
    LET hits == SortByKey({x \in index : StrLess(gt, x.ikey) /\ StrLess(x.ikey, lt)})
    IN  [i \in 1..Len(hits) |-> db[hits[i].pk]]

\* the bounds createContextStream reads msgDBIndexes.context with
ContextGt(opts) == opts.context \o sep \o hex(opts.seq)
ContextLtOpen(opts) == MAX_CHAR                  \* lt without the context
ContextLt(opts) == opts.context \o sep \o MAX_CHAR

createContextStream(index, db, opts) ==
    ReadRange(index, db, ContextGt(opts), ContextLt(opts))

\* cursor(): the active share states, old ones first
cursor(index, db) ==
    LET hits == SortByKey(index)
    IN  SelectSeq([i \in 1..Len(hits) |-> db[hits[i].pk]], LAMBDA d : d.active = "true")

\* forward(data): the identifier of the pair's session
Identifier(data) == Str(data.context) \o Str(data.recipient)

\* the session forward(data) opens
NewSession(index, db, data) ==
    [context |-> data.context, recipient |-> data.recipient,
     gt |-> ContextGt(data), lt |-> ContextLt(data),
     queue |-> createContextStream(index, db, data), inflight |-> Nil,
     destroyed |-> FALSE]

\* forward without the forwarding[identifier] test
forwardAlways(sessions, index, db, data) ==
    Put(sessions, Identifier(data), NewSession(index, db, data))

\* forward testing only whether the pair's session has a worker call in flight
forwardUnlessBusy(sessions, index, db, data) ==
    IF Identifier(data) \in DOMAIN sessions /\ sessions[Identifier(data)].inflight # Nil
    THEN sessions
    ELSE Put(sessions, Identifier(data), NewSession(index, db, data))

\* forward opening a new session in place of one an error has torn down
forwardAfterError(sessions, index, db, data) ==
    IF Identifier(data) \in DOMAIN sessions /\ ~sessions[Identifier(data)].destroyed
    THEN sessions
    ELSE Put(sessions, Identifier(data), NewSession(index, db, data))

\* forward(data): the forwarding map afterwards
forward(sessions, index, db, data) ==
    IF Identifier(data) \in DOMAIN sessions THEN sessions
    ELSE Put(sessions, Identifier(data), NewSession(index, db, data))

\* live part of the sessions' reads: a row written under ikey reaches every
\* session whose bounds hold it
Live(sessions, ikey, row) ==
    [id \in DOMAIN sessions |->
        IF /\ ~sessions[id].destroyed
           /\ StrLess(sessions[id].gt, ikey) /\ StrLess(ikey, sessions[id].lt)
        THEN [sessions[id] EXCEPT !.queue = Append(@, row)]
        ELSE sessions[id]]

NotShared == "context not shared with recipient"
InvalidRequest == "expected \"context\" and \"recipient\""

\* position reading the whole cfr index, without the eq of the pair
positionCallsAnyPair(index, db, context, recipient) ==
    LET hits == SortByKey(index)
        data == SelectSeq([i \in 1..Len(hits) |-> db[hits[i].pk]],
                          LAMBDA d : d.active = "true")
    IN  (IF data = <<>> THEN <<>> ELSE <<[err |-> "", seq |-> data[1].seq]>>)
            \o <<[err |-> NotShared, seq |-> 0]>>

\* the calls position's stream makes to cb, in order, before `once` filters them:
\* cursor({ eq: context + sep + recipient, live: false }) reads the index rows
\* from eq up to eq + sep and lets the active ones through; .once('data') calls
\* cb for the first of them, 'end' calls it with the error
positionCalls(index, db, context, recipient) ==
    LET eq == context \o sep \o recipient
        hits == SortByKey({x \in index : ~StrLess(x.ikey, eq) /\ ~StrLess(eq \o sep, x.ikey)})
        data == SelectSeq([i \in 1..Len(hits) |-> db[hits[i].pk]],
                          LAMBDA d : d.active = "true")
    IN  (IF data = <<>> THEN <<>> ELSE <<[err |-> "", seq |-> data[1].seq]>>)
            \o <<[err |-> NotShared, seq |-> 0]>>

\* once(cb): only the first call reaches cb
once(calls) == IF calls = <<>> THEN <<>> ELSE <<Head(calls)>>

\* position({ context, recipient }, cb): the error thrown, or what cb is called with
position(index, db, context, recipient) ==
    IF context = NoString \/ recipient = NoString
    THEN [err |-> InvalidRequest, seq |-> 0]
    ELSE once(positionCalls(index, db, context, recipient))[1]

\* messages({ context, recipient, live: false }): the error and the records of the stream
messages(mIndex, mDB, cIndex, cDB, context, recipient) ==
    LET pos == position(cIndex, cDB, context, recipient)
    IN  IF pos.err # "" THEN [err |-> pos.err, records |-> <<>>]
        ELSE [err |-> "",
              records |-> createContextStream(mIndex, mDB,
                             [context |-> context, recipient |-> recipient,
                              seq |-> pos.seq])]

----------------------------------------------------------------------------
(* Construction *)

Init ==
    /\ feed = <<>>
    /\ closed = FALSE
    /\ msgHW = 0
    /\ ctxHW = 0
    /\ msgDB = EmptyMap
    /\ msgIndex = {}
    /\ ctxDB = EmptyMap
    /\ cfr = {}
    /\ cursorQ = <<>>
    /\ forwarding = EmptyMap
    /\ handed = [pr \in WorkerPairs |-> <<>>]
    /\ ctxLog = <<>>
    /\ hwAtOpen = 0
    /\ opened = 1
    /\ dbOpen = [ns \in Namespaces |-> TRUE]
    /\ dbCloses = [ns \in Namespaces |-> 0]
    /\ closeCalls = 0
    /\ closeCbs = 0

----------------------------------------------------------------------------
(* The node's feed: entries appended by peers and by the application *)

EnvCount == Cardinality({i \in 1..Len(feed) : feed[i].permalink \notin Wrappers})

\* a message is received from, or sent to, a peer (node.changes gets its newobj)
Receive(p) ==
    /\ EnvCount < MaxEnv /\ Len(feed) < MaxFeed
    /\ feed' = Append(feed, NewMessage(p))
    /\ UNCHANGED <<closed, msgHW, ctxHW, msgDB, msgIndex, ctxDB, cfr, cursorQ,
                   forwarding, handed, ctxLog, hwAtOpen, opened, dbVars>>

\* an object that is no message is announced
ReceivePayload ==
    /\ EnvCount < MaxEnv /\ Len(feed) < MaxFeed
    /\ feed' = Append(feed, NewPayload)
    /\ UNCHANGED <<closed, msgHW, ctxHW, msgDB, msgIndex, ctxDB, cfr, cursorQ,
                   forwarding, handed, ctxLog, hwAtOpen, opened, dbVars>>

share(context, recipient, seq) ==
    /\ EnvCount < MaxEnv /\ Len(feed) < MaxFeed
    /\ feed' = Append(feed, Control(SHARECTX, context, recipient, seq))
    /\ UNCHANGED <<closed, msgHW, ctxHW, msgDB, msgIndex, ctxDB, cfr, cursorQ,
                   forwarding, handed, ctxLog, hwAtOpen, opened, dbVars>>

unshare(context, recipient) ==
    /\ EnvCount < MaxEnv /\ Len(feed) < MaxFeed
    /\ feed' = Append(feed, Control(UNSHARECTX, context, recipient, 0))
    /\ UNCHANGED <<closed, msgHW, ctxHW, msgDB, msgIndex, ctxDB, cfr, cursorQ,
                   forwarding, handed, ctxLog, hwAtOpen, opened, dbVars>>

----------------------------------------------------------------------------
(* The two indexers: one feed entry per step, in feed order *)

\* the Message View pipeline with the error of keeper.get ignored
MsgPassIgnoringError(value, keeperOk) == MsgFilter(value)

\* whether an entry of the Message View pipeline reaches reduce: it passes the
\* filter and keeper.get answered without error
MsgPass(value, keeperOk) == MsgFilter(value) /\ keeperOk

\* one entry through the Message View pipeline: the rows and the index
\* afterwards, and the row written (Nil if none)
MsgStep(db, index, change, keeperOk) ==
    LET val == MsgPreprocess(change.value)
        pk == MsgPrimaryKey(val)
        prev == Get(db, pk)
        next == IF MsgPass(change.value, keeperOk)
                THEN MsgReduce(prev, [change EXCEPT !.value = val])
                ELSE Nil
    IN  IF next = Nil \/ deepEqual(prev, next)
        THEN [db |-> db, index |-> index, row |-> Nil]
        ELSE [db |-> Put(db, pk, next),
              index |-> Reindex(index, pk,
                                IF prev = Nil THEN NoString ELSE MsgIndexKey(prev),
                                MsgIndexKey(next)),
              row |-> next]

MsgIndexStep ==
    /\ ~closed
    /\ msgHW < Len(feed)
    /\ msgHW' = msgHW + 1
    /\ LET change == [change |-> FeedBase + msgHW + 1, value |-> feed[msgHW + 1]]
       IN  \E keeperOk \in IF MsgFilter(change.value) THEN BOOLEAN ELSE {TRUE} :
             LET r == MsgStep(msgDB, msgIndex, change, keeperOk)
             IN  /\ msgDB' = r.db
                 /\ msgIndex' = r.index
                 /\ forwarding' = IF r.row = Nil THEN forwarding
                                   ELSE Live(forwarding, MsgIndexKey(r.row), r.row)
    /\ UNCHANGED <<feed, closed, ctxHW, ctxDB, cfr, cursorQ, handed, ctxLog,
                   hwAtOpen, opened, dbVars>>

\* which lookups of the Share View pipeline can fail for an entry
CtxFailures(value) ==
    IF CtxFilter(value) /\ value.topic = NEWOBJ
    THEN {"none", "keeper", "objectinfo"} \cup
         (IF IsSecondTier(CtxPreprocess(feed, value)) THEN {"original"} ELSE {})
    ELSE {"none"}

\* whether an entry of the Share View pipeline reaches primaryKey and reduce:
\* it passes the filter and the lookups of preprocess answered without error
CtxPass(value, failure) == CtxFilter(value) /\ failure \notin {"keeper", "objectinfo"}

\* one entry through the Share View pipeline: the rows and the index
\* afterwards, the row written (Nil if none) and what was done with the entry
CtxStep(log, db, index, change, failure) ==
    LET pass == CtxPass(change.value, failure)
        val == IF pass THEN CtxPreprocess(log, change.value) ELSE change.value
        pk == IF pass THEN CtxPrimaryKey(val) ELSE NoString
        prev == Get(db, pk)
        next == IF pass /\ pk # NoString
                THEN CtxReduce(log, prev, [change EXCEPT !.value = val],
                               failure # "original")
                ELSE Nil
    IN  IF next = Nil \/ deepEqual(prev, next)
        THEN [db |-> db, index |-> index, row |-> Nil,
              log |-> IF next = Nil THEN "drop" ELSE "same"]
        ELSE [db |-> Put(db, pk, next),
              index |-> Reindex(index, pk,
                                IF prev = Nil THEN NoString ELSE CfrKey(prev),
                                CfrKey(next)),
              row |-> next, log |-> "write"]

CtxIndexStep ==
    /\ ~closed
    /\ ctxHW < Len(feed)
    /\ ctxHW' = ctxHW + 1
    /\ LET change == [change |-> FeedBase + ctxHW + 1, value |-> feed[ctxHW + 1]]
       IN  \E failure \in CtxFailures(change.value) :
             LET r == CtxStep(feed, ctxDB, cfr, change, failure)
             IN  /\ ctxLog' = Append(ctxLog, r.log)
                 /\ ctxDB' = r.db
                 /\ cfr' = r.index
                 /\ cursorQ' = IF r.row # Nil /\ CfrKey(r.row) # NoString
                                THEN Append(cursorQ, r.row) ELSE cursorQ
    /\ UNCHANGED <<feed, closed, msgHW, msgDB, msgIndex, forwarding, handed,
                   hwAtOpen, opened, dbVars>>

----------------------------------------------------------------------------
(* The forwarding controller *)

\* the pump of cursor() into forward(data)
CursorPump ==
    /\ ~closed
    /\ cursorQ # <<>>
    /\ cursorQ' = Tail(cursorQ)
    /\ LET data == Head(cursorQ)
       IN  forwarding' = IF data.active # "true" THEN forwarding
                         ELSE forward(forwarding, msgIndex, msgDB, data)
    /\ UNCHANGED <<feed, closed, msgHW, ctxHW, msgDB, msgIndex, ctxDB, cfr, handed,
                   ctxLog, hwAtOpen, opened, dbVars>>

\* a session gives its next message to the worker
WorkerInvoke(id) ==
    /\ id \in DOMAIN forwarding
    /\ ~forwarding[id].destroyed
    /\ forwarding[id].inflight = Nil
    /\ forwarding[id].queue # <<>>
    /\ LET s == forwarding[id]
           msgMeta == Head(s.queue)
       IN  /\ handed' = [handed EXCEPT ![<<s.context, s.recipient>>] =
                                          Append(@, msgMeta.permalink)]
           /\ forwarding' = [forwarding EXCEPT ![id].queue = Tail(s.queue),
                                               ![id].inflight = msgMeta]
    /\ UNCHANGED <<feed, closed, msgHW, ctxHW, msgDB, msgIndex, ctxDB, cfr, cursorQ,
                   ctxLog, hwAtOpen, opened, dbVars>>

\* defaultWorker: node.send has created the wrapper and calls back
defaultWorker(id) ==
    /\ id \in DOMAIN forwarding
    /\ forwarding[id].inflight # Nil
    /\ Len(feed) < MaxFeed
    /\ feed' = Append(feed, NewWrapper(forwarding[id].inflight.permalink,
                                       forwarding[id].recipient))
    /\ forwarding' = [forwarding EXCEPT ![id].inflight = Nil]
    /\ UNCHANGED <<closed, msgHW, ctxHW, msgDB, msgIndex, ctxDB, cfr, cursorQ, handed,
                   ctxLog, hwAtOpen, opened, dbVars>>

\* the worker calls back with an error (node.send failed): the through of the
\* session emits it and pump destroys the session's streams; the entry of the
\* forwarding map stays
workerError(id) ==
    /\ id \in DOMAIN forwarding
    /\ forwarding[id].inflight # Nil
    /\ forwarding' = [forwarding EXCEPT ![id].inflight = Nil,
                                        ![id].queue = <<>>,
                                        ![id].destroyed = TRUE]
    /\ UNCHANGED <<feed, closed, msgHW, ctxHW, msgDB, msgIndex, ctxDB, cfr, cursorQ,
                   handed, ctxLog, hwAtOpen, opened, dbVars>>

\* close(cb), called by the application or by the node's 'destroying' event
\* (parallel calls cb once both namespaces have closed; the early return drops cb)
close ==
    /\ closeCalls < MaxClose
    /\ closeCalls' = closeCalls + 1
    /\ IF closed
       THEN UNCHANGED <<closed, dbOpen, dbCloses, closeCbs>>
       ELSE /\ closed' = TRUE
            /\ dbOpen' = [ns \in Namespaces |-> FALSE]
            /\ dbCloses' = [ns \in Namespaces |-> dbCloses[ns] + 1]
            /\ closeCbs' = closeCbs + 1
    /\ UNCHANGED <<feed, msgHW, ctxHW, msgDB, msgIndex, ctxDB, cfr, cursorQ, forwarding,
                   handed, ctxLog, hwAtOpen, opened>>

\* a namespace is closed from outside the engine: its 'closing' event sets the flag
closing(ns) ==
    /\ dbOpen[ns]
    /\ dbOpen' = [dbOpen EXCEPT ![ns] = FALSE]
    /\ closed' = TRUE
    /\ UNCHANGED <<feed, msgHW, ctxHW, msgDB, msgIndex, ctxDB, cfr, cursorQ, forwarding,
                   handed, ctxLog, hwAtOpen, opened, dbCloses, closeCalls, closeCbs>>

\* a new engine instance on the same node, db name and feed, after a close
createContextDB ==
    /\ closed
    /\ opened < MaxOpen
    /\ opened' = opened + 1
    /\ closed' = FALSE
    /\ forwarding' = EmptyMap
    /\ cursorQ' = cursor(cfr, ctxDB)
    /\ handed' = [pr \in WorkerPairs |-> <<>>]
    /\ hwAtOpen' = ctxHW
    /\ dbOpen' = [ns \in Namespaces |-> TRUE]
    /\ dbCloses' = [ns \in Namespaces |-> 0]
    /\ closeCalls' = 0
    /\ closeCbs' = 0
    /\ UNCHANGED <<feed, msgHW, ctxHW, msgDB, msgIndex, ctxDB, cfr, ctxLog>>

----------------------------------------------------------------------------

Identifiers == {Identifier([context |-> pr[1], recipient |-> pr[2]]) : pr \in WorkerPairs}

\* what the node and the application do to the feed
Environment ==
    \/ \E p \in Originals : Receive(p)
    \/ ReceivePayload
    \/ \E pr \in SharePairs, s \in ShareSeqs : share(pr[1], pr[2], s)
    \/ \E pr \in SharePairs : unshare(pr[1], pr[2])

\* what one engine instance does
Engine ==
    \/ MsgIndexStep
    \/ CtxIndexStep
    \/ CursorPump
    \/ \E id \in Identifiers : WorkerInvoke(id)
    \/ \E id \in Identifiers : defaultWorker(id)

Next ==
    \/ Environment
    \/ Engine
    \/ close
    \/ createContextDB

\* the node with its engine closed and created again
Spec == Init /\ [][Next]_vars

RunNext ==
    \/ Environment
    \/ Engine

\* one engine instance that is never closed
RunSpec == Init /\ [][RunNext]_vars

\* the application shares one pair again and again, with any starting seq,
\* beside a second pair
ShareArgSeqs == {0, 250}
ShareEnvironment ==
    \/ \E p \in {<<112, 49>>, <<112, 50>>} : Receive(p)
    \/ \E s \in ShareArgSeqs : share(<<97>>, <<99>>, s)
    \/ unshare(<<97>>, <<99>>)
    \/ share(<<97, 98>>, <<99>>, 0)

ShareNext ==
    \/ ShareEnvironment
    \/ Engine

ShareSpec == Init /\ [][ShareNext]_vars

\* the application calls share and unshare with a context or a recipient missing
ApiContexts == {<<97>>, NoString}
ApiRecipients == {<<99>>, NoString}
ApiEnvironment ==
    \/ \E p \in {<<112, 51>>, <<112, 52>>} : Receive(p)
    \/ \E c \in ApiContexts, r \in ApiRecipients : share(c, r, 0)
    \/ \E c \in ApiContexts, r \in ApiRecipients : unshare(c, r)

ApiNext ==
    \/ ApiEnvironment
    \/ MsgIndexStep
    \/ CtxIndexStep
    \/ CursorPump

ApiSpec == Init /\ [][ApiNext]_vars

\* one engine instance, closed by the application, by the node's 'destroying'
\* event, or after one of its namespaces was closed
CloseEnvironment ==
    \/ Receive(<<112, 50>>)
    \/ share(<<97>>, <<99>>, 0)

CloseNext ==
    \/ CloseEnvironment
    \/ Engine
    \/ close
    \/ \E ns \in Namespaces : closing(ns)

CloseSpec == Init /\ [][CloseNext]_vars

\* the application shares two pairs whose context + recipient read the same:
\* "a" with "bc", "ab" with "c"
CollideEnvironment ==
    \/ \E p \in {<<112, 49>>, <<112, 51>>} : Receive(p)
    \/ share(<<97>>, LongRecipient, 0)
    \/ share(<<97, 98>>, <<99>>, 0)

CollideNext ==
    \/ CollideEnvironment
    \/ Engine

CollideSpec == Init /\ [][CollideNext]_vars

\* the application shares and unshares pairs whose context or recipient holds
\* a ':' : "a:b" with "c", "a" with "b:c"
ColonContext == <<97, 58, 98>>
ColonRecipient == <<98, 58, 99>>
ColonEnvironment ==
    \/ Receive(<<112, 49>>)
    \/ share(ColonContext, <<99>>, 0)
    \/ share(<<97>>, ColonRecipient, 0)
    \/ unshare(<<97>>, ColonRecipient)

ColonNext ==
    \/ ColonEnvironment
    \/ MsgIndexStep
    \/ CtxIndexStep
    \/ CursorPump

ColonSpec == Init /\ [][ColonNext]_vars

\* one engine instance whose worker can call back with an error
WorkerEnvironment ==
    \/ \E p \in {<<112, 49>>, <<112, 50>>, <<112, 51>>} : Receive(p)
    \/ \E pr \in SharePairs : share(pr[1], pr[2], 0)

WorkerNext ==
    \/ WorkerEnvironment
    \/ Engine
    \/ \E id \in Identifiers : workerError(id)

WorkerSpec == Init /\ [][WorkerNext]_vars

----------------------------------------------------------------------------
(* Properties *)

ElementsOf(q) == {q[i] : i \in 1..Len(q)}

\* C1: within one engine instance the worker is invoked at most once for a
\* pair (context, recipient) and a message permalink, whatever the order of
\* message arrivals, share calls, re-emissions of the pair by the live cursor
\* and worker callbacks.
WorkerAtMostOncePerMessage ==
    \A pr \in Pairs : \A i, j \in 1..Len(handed[pr]) :
        i # j => handed[pr][i] # handed[pr][j]

\* the live cursor emits again a pair whose session has already given a
\* message to the worker
PairReemittedWhileForwarding ==
    /\ cursorQ # <<>>
    /\ Head(cursorQ).active = "true"
    /\ Identifier(Head(cursorQ)) \in DOMAIN forwarding
    /\ handed[<<Head(cursorQ).context, Head(cursorQ).recipient>>] # <<>>

Quiescent ==
    /\ msgHW = Len(feed)
    /\ ctxHW = Len(feed)
    /\ cursorQ = <<>>
    /\ \A id \in DOMAIN forwarding :
          forwarding[id].queue = <<>> /\ forwarding[id].inflight = Nil

\* a sharectx(c, r) with seq 0 has been indexed and no unsharectx(c, r) follows it
SharedFromStart(c, r) ==
    \E i \in 1..ctxHW :
        /\ feed[i] = Control(SHARECTX, c, r, 0)
        /\ \A j \in (i + 1)..Len(feed) : feed[j] # Control(UNSHARECTX, c, r, 0)

\* C3: once a sharectx(c, r) with seq 0 has been indexed and no unsharectx(c, r)
\* follows, every message the Message View records with context c has been
\* given to the worker for (c, r) by the time the engine, never closed and its
\* worker always calling back, has nothing left to do.
EveryMessageOfSharedContextForwarded ==
    Quiescent =>
        \A pr \in SharePairs :
            SharedFromStart(pr[1], pr[2]) =>
                \A p \in DOMAIN msgDB :
                    msgDB[p].context = pr[1] => p \in ElementsOf(handed[pr])

\* the rows the context index holds for context c, in index order
ContextRows(c) == ReadRange(msgIndex, msgDB, c \o sep, c \o sep \o MAX_CHAR)

\* C4: for every pair the worker is invoked in strictly increasing order of the
\* messages' Message View seq, and the context index of every context holds
\* all its messages in increasing seq order.
ForwardedInSeqOrder ==
    /\ \A pr \in Pairs : \A i, j \in 1..Len(handed[pr]) :
          i < j => msgDB[handed[pr][i]].seq < msgDB[handed[pr][j]].seq
    /\ \A c \in Contexts :
          /\ ElementsOf(ContextRows(c)) = {msgDB[p] : p \in {q \in DOMAIN msgDB : msgDB[q].context = c}}
          /\ \A i, j \in 1..Len(ContextRows(c)) :
                i < j => ContextRows(c)[i].seq < ContextRows(c)[j].seq

\* a session has given two messages to the worker
TwoMessagesForwarded == \E pr \in Pairs : Len(handed[pr]) >= 2

\* a message entry for which getContext yields no context, in the Message
\* View's call and in the Share View's call
Contextless(log, e) ==
    /\ e.topic = NEWOBJ /\ e.type = MESSAGE_TYPE
    /\ getContext(MsgPreprocess(e), FALSE) = NoString
    /\ getContext(CtxPreprocess(log, e), TRUE) = NoString

\* C5: the worker for (c, r) is given only messages whose Message View row has
\* context c; a message for which getContext yields no context has no Message
\* View row, is given to no worker, and the Share View step that consumes its
\* entry changes no share record.
OnlyContextMessagesForwarded ==
    [][ /\ \A pr \in Pairs : \A i \in 1..Len(handed'[pr]) :
              /\ handed'[pr][i] \in DOMAIN msgDB'
              /\ msgDB'[handed'[pr][i]].context = pr[1]
        /\ \A i \in 1..Len(feed') :
              Contextless(feed', feed'[i]) =>
                  /\ feed'[i].permalink \notin DOMAIN msgDB'
                  /\ \A pr \in Pairs : feed'[i].permalink \notin ElementsOf(handed'[pr])
        /\ (ctxHW' = ctxHW + 1 /\ Contextless(feed, feed[ctxHW + 1])) =>
              (ctxDB' = ctxDB /\ cfr' = cfr)
      ]_vars

\* both indexers have consumed a message without a context while a session
\* has given a message to the worker
ContextlessConsumedWhileForwarding ==
    /\ \E i \in 1..Len(feed) :
          i <= msgHW /\ i <= ctxHW /\ Contextless(feed, feed[i])
    /\ \E pr \in Pairs : handed[pr] # <<>>

\* C6: a Message View row, once written for a permalink, is never changed by a
\* later newobj entry for the same permalink.
MessageRowImmutable ==
    [][ \A p \in DOMAIN msgDB : p \in DOMAIN msgDB' /\ msgDB'[p] = msgDB[p] ]_vars

\* the Message View has consumed a second newobj entry of a permalink whose
\* row the first one wrote
PermalinkObservedAgain ==
    \E i, j \in 1..msgHW :
        /\ i < j
        /\ feed[i].topic = NEWOBJ /\ feed[j].topic = NEWOBJ
        /\ feed[i].permalink = feed[j].permalink
        /\ feed[i].permalink \in DOMAIN msgDB
        /\ msgDB[feed[i].permalink].seq = FeedBase + i

\* C7: the seq of a stored share record never decreases from one committed
\* state to the next.
ShareSeqNeverDecreases ==
    [][ \A k \in DOMAIN ctxDB : ctxDB'[k].seq >= ctxDB[k].seq ]_vars

\* C8: a share record exists for (c, r) only if the Share View has consumed a
\* sharectx for (c, r).
ShareRecordOnlyAfterShare ==
    \A k \in DOMAIN ctxDB :
        \E i \in 1..ctxHW :
            /\ feed[i].topic = SHARECTX
            /\ feed[i].context = ctxDB[k].context
            /\ feed[i].recipient = ctxDB[k].recipient

\* C9: an unsharectx(c, r) consumed before any sharectx(c, r) leaves the primary
\* rows and the cfr index of the Share View as they were.
UnshareBeforeShareIsNoOp ==
    [][ ( /\ ctxHW' = ctxHW + 1
          /\ feed[ctxHW + 1].topic = UNSHARECTX
          /\ \A i \in 1..ctxHW :
                ~ ( /\ feed[i].topic = SHARECTX
                    /\ feed[i].context = feed[ctxHW + 1].context
                    /\ feed[i].recipient = feed[ctxHW + 1].recipient ) )
        => (ctxDB' = ctxDB /\ cfr' = cfr)
      ]_vars

\* the topic of the last sharectx or unsharectx for (c, r) among the first n entries
LastControl(log, n, c, r) ==
    LET S == {i \in 1..n : /\ log[i].topic \in {SHARECTX, UNSHARECTX}
                           /\ log[i].context = c /\ log[i].recipient = r}
    IN  IF S = {} THEN "none"
        ELSE log[CHOOSE i \in S : \A j \in S : j <= i].topic

CfrHas(index, c, r) == \E x \in index : x.ikey = c \o sep \o r \o sep

\* C10: after the Share View has consumed any feed prefix, cfr holds a row for
\* (c, r) exactly if the last sharectx or unsharectx for (c, r) in that prefix
\* is a sharectx, and consuming a newobj entry leaves the cfr rows as they were.
CfrIffLastControlIsShare ==
    [][ /\ \A pr \in Pairs :
              CfrHas(cfr', pr[1], pr[2]) <=>
                  (LastControl(feed', ctxHW', pr[1], pr[2]) = SHARECTX)
        /\ (ctxHW' = ctxHW + 1 /\ feed[ctxHW + 1].topic = NEWOBJ) => cfr' = cfr
      ]_vars

\* a pair that was unshared and shared again is in cfr, and a newobj entry has
\* moved its seq
ResharedPairAdvanced ==
    \E pr \in Pairs :
        /\ CfrHas(cfr, pr[1], pr[2])
        /\ \E i \in 1..ctxHW : feed[i] = Control(UNSHARECTX, pr[1], pr[2], 0)
        /\ \E k \in DOMAIN ctxDB :
              /\ ctxDB[k].context = pr[1] /\ ctxDB[k].recipient = pr[2]
              /\ ctxDB[k].seq > 0

----------------------------------------------------------------------------
(* Properties of share, position, messages and close *)

\* the Share View consumes feed entry ctxHW + 1, a sharectx with a primary key
ConsumesShare ==
    /\ ctxHW' = ctxHW + 1
    /\ feed[ctxHW + 1].topic = SHARECTX
    /\ CtxPrimaryKey(feed[ctxHW + 1]) # NoString

\* C11: when a sharectx is consumed for a pair that has no share record, the
\* record created has the seq the sharectx entry carries.
FirstShareTakesEntrySeq ==
    [][ (ConsumesShare /\ CtxPrimaryKey(feed[ctxHW + 1]) \notin DOMAIN ctxDB) =>
            /\ CtxPrimaryKey(feed[ctxHW + 1]) \in DOMAIN ctxDB'
            /\ ctxDB'[CtxPrimaryKey(feed[ctxHW + 1])].seq = feed[ctxHW + 1].seq
      ]_vars

\* C12: a sharectx consumed for a pair that has a share record leaves the
\* record's seq, context and recipient as they were, whatever seq the entry
\* carries, and reducing the same entry once more changes nothing.
ShareKeepsExistingRecord ==
    [][ (ConsumesShare /\ CtxPrimaryKey(feed[ctxHW + 1]) \in DOMAIN ctxDB) =>
            LET pk == CtxPrimaryKey(feed[ctxHW + 1])
                change == [change |-> FeedBase + ctxHW + 1, value |-> feed[ctxHW + 1]]
            IN  /\ ctxDB'[pk].seq = ctxDB[pk].seq
                /\ ctxDB'[pk].context = ctxDB[pk].context
                /\ ctxDB'[pk].recipient = ctxDB[pk].recipient
                /\ ctxDB'[pk].active = "true"
                /\ CtxReduce(feed, ctxDB'[pk], change, TRUE) = Nil
      ]_vars

\* the Share View has consumed a sharectx carrying a seq other than the seq of
\* the record the pair already had
ShareArrivedWithOtherSeq ==
    \E i \in 1..ctxHW :
        /\ feed[i].topic = SHARECTX
        /\ \E j \in 1..(i - 1) : feed[j].topic = SHARECTX /\ feed[j].context = feed[i].context
                                 /\ feed[j].recipient = feed[i].recipient
        /\ CtxPrimaryKey(feed[i]) \in DOMAIN ctxDB
        /\ ctxDB[CtxPrimaryKey(feed[i])].seq # feed[i].seq

\* the Share View holds a record of the pair with active = true
ActiveRecord(c, r) ==
    \E k \in DOMAIN ctxDB :
        ctxDB[k].context = c /\ ctxDB[k].recipient = r /\ ctxDB[k].active = "true"

\* C13: for every pair with no active share record (never shared, or its last
\* control entry consumed is an unsharectx), position calls its callback exactly
\* once, with the NotShared error, and the stream of messages emits no record
\* and errors with NotShared.
NotSharedWithoutActiveRecord ==
    \A pr \in Pairs :
        (~ActiveRecord(pr[1], pr[2]) \/ LastControl(feed, ctxHW, pr[1], pr[2]) # SHARECTX) =>
            /\ once(positionCalls(cfr, ctxDB, pr[1], pr[2])) = <<[err |-> NotShared, seq |-> 0]>>
            /\ position(cfr, ctxDB, pr[1], pr[2]) = [err |-> NotShared, seq |-> 0]
            /\ messages(msgIndex, msgDB, cfr, ctxDB, pr[1], pr[2]) =
                   [err |-> NotShared, records |-> <<>>]

\* a pair whose last control entry is an unsharectx has messages recorded for
\* its context, while another pair is shared
UnsharedPairBesideSharedPair ==
    \E pr, qr \in Pairs :
        /\ pr # qr
        /\ ActiveRecord(qr[1], qr[2])
        /\ LastControl(feed, ctxHW, pr[1], pr[2]) = UNSHARECTX
        /\ \E p \in DOMAIN msgDB : msgDB[p].context = pr[1]

\* share({context: c, recipient: r, seq: 0}) is the last call that appended to
\* the feed, no unshare of the pair was ever called, and both indexers have
\* consumed the whole feed
JustShared(c, r) ==
    /\ feed # <<>>
    /\ feed[Len(feed)] = Control(SHARECTX, c, r, 0)
    /\ \A i \in 1..Len(feed) : feed[i] # Control(UNSHARECTX, c, r, 0)
    /\ msgHW = Len(feed)
    /\ ctxHW = Len(feed)

\* C14: messages({context, recipient, live: false}) called after
\* share({context, recipient, seq: 0}), with no unshare, does not fail with
\* NotShared and yields exactly the messages of the context that the Message
\* View has recorded. (Stated for the most favourable moment of the call, when
\* the indexers have consumed the sharectx entry.)
MessagesAfterShareYieldContext ==
    \A pr \in SharePairs :
        JustShared(pr[1], pr[2]) =>
            /\ messages(msgIndex, msgDB, cfr, ctxDB, pr[1], pr[2]).err = ""
            /\ messages(msgIndex, msgDB, cfr, ctxDB, pr[1], pr[2]).records = ContextRows(pr[1])

\* C15: once the Share View has consumed an unsharectx(c, r) as the pair's last
\* control entry, a message the Message View records is not delivered to a
\* forwarding session of (c, r), whose next step would give it to the worker.
NoDeliveryAfterUnshare ==
    [][ \A pr \in Pairs :
            LET id == Identifier([context |-> pr[1], recipient |-> pr[2]])
            IN  ( /\ LastControl(feed, ctxHW, pr[1], pr[2]) = UNSHARECTX
                  /\ msgHW' = msgHW + 1
                  /\ id \in DOMAIN forwarding )
                => forwarding'[id].queue = forwarding[id].queue
      ]_vars

\* C16: once close has been called, directly or by the node's 'destroying'
\* event, both namespaces are closed, and the engine has closed each of them
\* at most once however many times close was called, also when the 'closing'
\* event of one namespace had set the closed flag before.
CloseClosesBothOnce ==
    /\ closeCalls > 0 => \A ns \in Namespaces : ~dbOpen[ns]
    /\ \A ns \in Namespaces : dbCloses[ns] <= 1

\* C17: share and unshare called with a context or a recipient missing append
\* nothing to the feed, so no view holds a record without a recipient, and
\* position and messages called that way fail with InvalidRequest.
MissingArgumentIsRejected ==
    /\ \A i \in 1..Len(feed) :
          feed[i].topic \in {SHARECTX, UNSHARECTX} =>
              feed[i].context # NoString /\ feed[i].recipient # NoString
    /\ \A k \in DOMAIN ctxDB : ctxDB[k].recipient # NoString
    /\ \A c \in ApiContexts, r \in ApiRecipients :
          (c = NoString \/ r = NoString) =>
              /\ position(cfr, ctxDB, c, r).err = InvalidRequest
              /\ messages(msgIndex, msgDB, cfr, ctxDB, c, r).err = InvalidRequest

\* the Message View rows of context c with a seq above s
RowsAbove(c, s) ==
    {msgDB[p] : p \in {q \in DOMAIN msgDB : msgDB[q].context = c /\ msgDB[q].seq > s}}

WrapperEntry(e) == e.topic = NEWOBJ /\ e.type = MESSAGE_TYPE /\ IsSecondTier(CtxPreprocess(feed, e))

\* C19: when the Share View processes the newobj of a wrapper, the record it
\* writes is the one of (context of the original message, recipient of the
\* wrapper), its seq becomes the feed index of the original message's entry,
\* not the wrapper's own, and no other record changes.
SecondTierCreditsOriginal ==
    [][ ( /\ ctxHW' = ctxHW + 1
          /\ WrapperEntry(feed[ctxHW + 1])
          /\ ctxLog'[ctxHW + 1] # "drop" )
        => LET w == feed[ctxHW + 1]
               original == w.objectinfo.link
               k == BodyContext(original) \o COLON \o w.recipient
           IN  /\ k \in DOMAIN ctxDB'
               /\ ctxDB'[k].context = BodyContext(original)
               /\ ctxDB'[k].recipient = w.recipient
               /\ ctxDB'[k].seq = FeedBase + EntryOf(feed, original)
               /\ ctxDB'[k].seq # FeedBase + ctxHW + 1
               /\ \A j \in DOMAIN ctxDB' \ {k} : j \in DOMAIN ctxDB /\ ctxDB'[j] = ctxDB[j]
      ]_vars

\* the Share View has written a record for the newobj of a wrapper
WrapperIndexed ==
    \E i \in 1..ctxHW : WrapperEntry(feed[i]) /\ ctxLog[i] = "write"

\* C20: if keeper.get or node.objects.get fails for the entry an indexer is
\* about to consume, consuming it leaves the primary rows and the secondary
\* index of that indexer's view as they are.
LookupFailureDropsEntry ==
    /\ (msgHW < Len(feed) /\ MsgFilter(feed[msgHW + 1])) =>
          MsgStep(msgDB, msgIndex,
                  [change |-> FeedBase + msgHW + 1, value |-> feed[msgHW + 1]], FALSE)
              = [db |-> msgDB, index |-> msgIndex, row |-> Nil]
    /\ ctxHW < Len(feed) =>
          \A failure \in CtxFailures(feed[ctxHW + 1]) \ {"none"} :
              LET r == CtxStep(feed, ctxDB, cfr,
                               [change |-> FeedBase + ctxHW + 1, value |-> feed[ctxHW + 1]],
                               failure)
              IN  r.db = ctxDB /\ r.index = cfr /\ r.row = Nil

\* a lookup failed for a message with a context in each view (the entry was
\* consumed and left no row), and each indexer has written a row for a later
\* entry
LaterEntryIndexedAfterFailure ==
    /\ \E i \in 1..msgHW : \E j \in (i + 1)..msgHW :
          /\ MsgFilter(feed[i])
          /\ getContext(MsgPreprocess(feed[i]), FALSE) # NoString
          /\ feed[i].permalink \notin DOMAIN msgDB
          /\ feed[j].permalink \in DOMAIN msgDB
          /\ msgDB[feed[j].permalink].seq = FeedBase + j
    /\ \E i \in 1..ctxHW : \E j \in (i + 1)..ctxHW :
          /\ MsgFilter(feed[i])
          /\ getContext(CtxPreprocess(feed, feed[i]), TRUE) # NoString
          /\ ctxLog[i] = "drop"
          /\ ctxLog[j] = "write"

----------------------------------------------------------------------------
(* Properties of rebuilding, closing and the forwarding map *)

\* the Message View an indexer builds on an empty namespace from the first n
\* entries of the feed, every lookup answering
RECURSIVE RebuildMsg(_, _)
RebuildMsg(log, n) ==
    IF n = 0 THEN [db |-> EmptyMap, index |-> {}, row |-> Nil]
    ELSE LET prev == RebuildMsg(log, n - 1)
         IN  MsgStep(prev.db, prev.index, [change |-> FeedBase + n, value |-> log[n]], TRUE)

\* the Share View built the same way
RECURSIVE RebuildCtx(_, _)
RebuildCtx(log, n) ==
    IF n = 0 THEN [db |-> EmptyMap, index |-> {}, row |-> Nil, log |-> "drop"]
    ELSE LET prev == RebuildCtx(log, n - 1)
         IN  CtxStep(log, prev.db, prev.index,
                     [change |-> FeedBase + n, value |-> log[n]], "none")

\* C21: for every feed prefix the indexers have consumed, across closes and
\* new engine instances, the primary rows of the Message View and of the Share
\* View are the rows a rebuild from empty namespaces over that prefix yields.
RebuildEqualsIncremental ==
    /\ msgDB = RebuildMsg(feed, msgHW).db
    /\ ctxDB = RebuildCtx(feed, ctxHW).db

\* C22: once close has been called, no step gives a message to the worker and
\* no step writes a row or an index key of either view, whatever is appended
\* to the feed afterwards.
NothingAfterClose ==
    [][ closeCalls > 0 =>
            /\ handed' = handed
            /\ msgDB' = msgDB /\ msgIndex' = msgIndex
            /\ ctxDB' = ctxDB /\ cfr' = cfr
      ]_vars

\* the pump takes the share state at the head of the cursor's output
Pumps == cursorQ # <<>> /\ cursorQ' = Tail(cursorQ)

\* C23: the forwarding map never holds two sessions of one pair, and when the
\* live cursor emits a pair that has a session, the pump leaves the map and
\* that session as they are: no second session is opened.
OneSessionPerPair ==
    [][ /\ \A i, j \in DOMAIN forwarding' :
              ( /\ forwarding'[i].context = forwarding'[j].context
                /\ forwarding'[i].recipient = forwarding'[j].recipient ) => i = j
        /\ (Pumps /\ Identifier(Head(cursorQ)) \in DOMAIN forwarding) =>
              forwarding' = forwarding
      ]_vars

\* the Share View rewrote the record of a shared pair with a new seq, the
\* cursor emitted the pair again and the pump has taken both emissions, while
\* the pair's session has given a message to the worker
ReemittedPairPumped ==
    \E pr \in SharePairs :
        /\ cursorQ = <<>>
        /\ Identifier([context |-> pr[1], recipient |-> pr[2]]) \in DOMAIN forwarding
        /\ handed[pr] # <<>>
        /\ \E i \in 1..ctxHW : \E j \in (i + 1)..ctxHW :
              /\ feed[i] = Control(SHARECTX, pr[1], pr[2], 0) /\ ctxLog[i] = "write"
              /\ feed[j].topic = NEWOBJ /\ ctxLog[j] = "write"
              /\ CtxPrimaryKey(CtxPreprocess(feed, feed[j])) = pr[1] \o COLON \o pr[2]
        /\ \A i \in 1..Len(feed) : feed[i].topic # UNSHARECTX

\* C24: every active pair the pump takes from the cursor has, after the step,
\* a forwarding session of its own under its identifier: the session of
\* another pair is never found in its place.
PairsHaveOwnSessions ==
    [][ (Pumps /\ Head(cursorQ).active = "true") =>
            LET data == Head(cursorQ)
                identifier == Identifier(data)
            IN  /\ identifier \in DOMAIN forwarding'
                /\ forwarding'[identifier].context = data.context
                /\ forwarding'[identifier].recipient = data.recipient
      ]_vars

\* C25: a Share View record is created and changed only by entries of its own
\* (context, recipient), so every record sits under the key of its own pair
\* and no entry of one pair touches the record of another, also when a context
\* or a recipient holds a ':'.
RecordOwnedByItsPair ==
    [][ ctxHW' = ctxHW + 1 =>
            LET val == CtxPreprocess(feed, feed[ctxHW + 1])
            IN  \A k \in DOMAIN ctxDB' :
                    (k \notin DOMAIN ctxDB \/ ctxDB'[k] # ctxDB[k]) =>
                        /\ ctxDB'[k].context = getContext(val, TRUE)
                        /\ ctxDB'[k].recipient = getRecipient(val)
      ]_vars

\* the session under id has been torn down by an error of the worker
TornDown(sessions, id) == id \in DOMAIN sessions /\ sessions[id].destroyed

\* C26: after the worker has called back with an error for a message of a
\* pair, the pair's entry of the forwarding map stays set and its session
\* stays torn down, so no message is given to the worker for the pair any
\* more; the step that tears the session down leaves the sessions of the
\* other pairs as they are.
WorkerErrorEndsOnlyItsPair ==
    [][ \A id \in DOMAIN forwarding :
            /\ TornDown(forwarding, id) =>
                  /\ id \in DOMAIN forwarding'
                  /\ forwarding'[id] = forwarding[id]
                  /\ forwarding[id].queue = <<>> /\ forwarding[id].inflight = Nil
                  /\ handed'[<<forwarding[id].context, forwarding[id].recipient>>]
                         = handed[<<forwarding[id].context, forwarding[id].recipient>>]
            /\ (~TornDown(forwarding, id) /\ TornDown(forwarding', id)) =>
                  \A other \in DOMAIN forwarding \ {id} :
                      forwarding'[other] = forwarding[other]
      ]_vars

\* the session of a pair was torn down and a message of its context, recorded
\* by the Message View, has never been given to the worker for the pair, with
\* nothing left for the engine to do
MessageWithheldAfterWorkerError ==
    /\ Quiescent
    /\ \E id \in DOMAIN forwarding :
          /\ TornDown(forwarding, id)
          /\ \E p \in DOMAIN msgDB :
                /\ msgDB[p].context = forwarding[id].context
                /\ p \notin ElementsOf(handed[<<forwarding[id].context, forwarding[id].recipient>>])

\* the messages of context c announced in the feed that are no wrappers
OriginalsOf(c) ==
    {feed[i].permalink : i \in {j \in 1..Len(feed) :
        feed[j].permalink \in Originals /\ BodyContext(feed[j].permalink) = c}}

\* C27: with the default getContext and the default worker the Message View
\* records no row for the wrapper that forwarding a message produces, so the
\* worker is given original messages only, each pair at most as many as its
\* context has: forwarding never feeds itself.
ForwardingNeverFeedsItself ==
    /\ \A p \in DOMAIN msgDB : p \notin Wrappers
    /\ \A pr \in WorkerPairs :
          /\ \A i \in 1..Len(handed[pr]) : handed[pr][i] \in OriginalsOf(pr[1])
          /\ Len(handed[pr]) <= Cardinality(OriginalsOf(pr[1]))

\* the Message View indexer has consumed the entries of two wrappers that
\* forwarding produced, and the engine has nothing left to do
WrappersConsumedByMessageView ==
    /\ Quiescent
    /\ \E i, j \in 1..msgHW :
          i # j /\ feed[i].permalink \in Wrappers /\ feed[j].permalink \in Wrappers

\* C28: every call of close has had its callback invoked exactly once, a
\* second call and a call made after a namespace's 'closing' event included.
EveryCloseCallsBack == closeCbs = closeCalls

====
